---- MODULE Spec2Model ----
(***************************************************************************)
(* life-of-game: a WebGPU Game of Life demo.                               *)
(*                                                                         *)
(* Two programs are modelled:                                              *)
(*   variant = "loop"       src/src/main.ts      (compute + render loop)   *)
(*   variant = "renderOnly" src/unnamed/part_000 (one render, no compute)  *)
(*                                                                         *)
(* The host side is the module's top-level script, one action per block of *)
(* statements, followed by the setInterval callback updateGrid.  The       *)
(* device side is the queue of submitted command buffers, executed in      *)
(* submission order by GpuExecute, asynchronously to the host.             *)
(*                                                                         *)
(* The WGSL shaders are not part of the sources; a cell-state buffer's     *)
(* content is abstracted to the number of the generation it holds (gen)    *)
(* and to whether anything has written it yet (written).                   *)
(*                                                                         *)
(* WebGPU reports a failed shader compilation or pipeline creation as a    *)
(* validation error on the device: createShaderModule, createRenderPipeline*)
(* and createComputePipeline return an invalid object and do not throw.    *)
(* A command encoder that used an invalid pipeline finishes to an invalid  *)
(* command buffer, which the queue does not execute.                       *)
(***************************************************************************)
EXTENDS Integers, Naturals, Sequences, FiniteSets, TLC

VARIABLES
    variant,        \* which program runs: "loop" or "renderOnly"
    env,            \* what the platform will answer (inputs, fixed at start)
    gridSize,       \* GRID_SIZE of the running program
    workgroupSize,  \* WORKGROUP_SIZE of the running program
    pc,             \* position of the top-level script
    error,          \* message of the Error thrown, "" when none
    created,        \* labels of the GPUBuffers created so far
    vertexData,     \* content uploaded to vertexBuffer (<<>> before upload)
    uniformData,    \* content uploaded to uniformBuffer (<<>> before upload)
    hostWrites,     \* every device.queue.writeBuffer call, in order
    modules,        \* validity of the shader modules created
    pipelines,      \* validity of the pipelines created
    bindGroups,     \* the bind groups created (index -> bindings)
    timers,         \* the interval of every setInterval call made, in order
    step,           \* the step counter of main.ts
    invocations,    \* number of updateGrid invocations completed (history)
    submitted,      \* every command buffer handed to device.queue.submit
    executed,       \* how many of them the device has processed
    written,        \* cell-state buffers whose content has been defined
    gen,            \* generation held by each cell-state buffer
    displayed,      \* generation shown by the last executed render pass
    readUnwritten   \* history: a pass read a cell buffer nobody had written

vars == <<variant, env, gridSize, workgroupSize, pc, error, created,
          vertexData, uniformData, hostWrites, modules, pipelines,
          bindGroups, timers, step, invocations, submitted, executed,
          written, gen, displayed, readUnwritten>>

\* ------------------------------------------------------------------ bounds
MaxStep == 4
MaxGrid == 9
MaxTile == 4

\* --------------------------------------------------------------- constants
GRID_SIZE == 128
WORKGROUP_SIZE == 8
RO_GRID_SIZE == 32
UPDATE_INTERVAL == 200

\* The quad, in tenths (-0.8 is -8): six 2D vertices.
vertices == <<-8, -8, 8, -8, 8, 8, -8, -8, 8, 8, -8, 8>>

uniformArray == <<gridSize, gridSize>>

VertexLabel == "Cell vertices"
UniformLabel == "Grid Uniforms"

cellStateStorage == [i \in 0..1 |-> IF i = 0 THEN "Cell State A" ELSE "Cell State B"]

CellLabels == {cellStateStorage[i] : i \in 0..1}

ErrNoGpu == "WebGPU not supported on this browser."
ErrNoAdapter == "No appropriate GPUAdapter found."
ErrNoContext == "Unable to obtain WebGPU context."

EnvSet == [gpu : BOOLEAN, adapter : BOOLEAN, context : BOOLEAN,
           cellShader : BOOLEAN, simShader : BOOLEAN,
           renderPipe : BOOLEAN, computePipe : BOOLEAN]

NoBindGroups == <<>>

\* ------------------------------------------------------------------- Init
InitRest ==
    /\ env \in EnvSet
    /\ pc = "start"
    /\ error = ""
    /\ created = {}
    /\ vertexData = <<>>
    /\ uniformData = <<>>
    /\ hostWrites = <<>>
    /\ modules = [cell |-> FALSE, sim |-> FALSE]
    /\ pipelines = [cell |-> FALSE, sim |-> FALSE]
    /\ bindGroups = NoBindGroups
    /\ timers = <<>>
    /\ step = 0
    /\ invocations = 0
    /\ submitted = <<>>
    /\ executed = 0
    /\ written = {}
    /\ gen = [b \in CellLabels |-> 0]
    /\ displayed = 0
    /\ readUnwritten = FALSE

Init ==
    /\ variant \in {"loop", "renderOnly"}
    /\ gridSize = (IF variant = "loop" THEN GRID_SIZE ELSE RO_GRID_SIZE)
    /\ workgroupSize = WORKGROUP_SIZE
    /\ InitRest

InitSizes ==
    /\ variant \in {"loop", "renderOnly"}
    /\ gridSize \in (1..MaxGrid) \cup {GRID_SIZE}
    /\ workgroupSize \in (1..MaxTile) \cup {WORKGROUP_SIZE}
    /\ InitRest

\* ---------------------------------------------------------------- helpers
\* An Error thrown by the top-level script: the module stops there.
Throw(msg) ==
    /\ pc' = "failed"
    /\ error' = msg

\* Mutant: the quotient truncated instead of rounded up.
MathCeil_floor(n, d) == n \div d

\* Math.ceil(n / d) for positive integers n, d.
MathCeil(n, d) == IF n % d = 0 THEN n \div d ELSE (n \div d) + 1

\* const workgroupCount = Math.ceil(GRID_SIZE / WORKGROUP_SIZE)
workgroupCount == MathCeil(gridSize, workgroupSize)

\* Mutant: the compute pass always binds bind group A.
ComputeGroup_fixed(s) == 0 * s

\* computePass.setBindGroup(0, bindGroups[step % 2]), s the value of step
ComputeGroup(s) == s % 2

\* Mutant: the render pass selects its bind group by the step before the
\* increment, that is the group the compute pass used.
RenderGroup_beforeIncrement(s) == (s + 1) % 2

\* pass.setBindGroup(0, bindGroups[step % 2]), s the value of step
RenderGroup(s) == s % 2

\* Mutant: the number of floats taken for the number of vertices.
DrawVertexCount_floats == Len(vertices)

\* pass.draw(vertices.length / 2, GRID_SIZE * GRID_SIZE)
DrawVertexCount == Len(vertices) \div 2

DrawInstanceCount == gridSize * gridSize

\* One device.queue.writeBuffer(target, 0, data) call, as logged.
WriteBuffer(target) == [target |-> target, timersInstalled |-> Len(timers)]

\* ------------------------------------------- main.ts: the top-level script
\* if (!navigator.gpu) throw
CheckGpu ==
    /\ variant = "loop"
    /\ pc = "start"
    /\ IF ~env.gpu
          THEN Throw(ErrNoGpu)
          ELSE pc' = "requestAdapter" /\ error' = error
    /\ UNCHANGED <<variant, env, gridSize, workgroupSize, created, vertexData,
                   uniformData, hostWrites, modules, pipelines, bindGroups,
                   timers, step, invocations, submitted, executed, written,
                   gen, displayed, readUnwritten>>

\* requestAdapter, if (!adapter) throw, requestDevice
RequestAdapter ==
    /\ variant = "loop"
    /\ pc = "requestAdapter"
    /\ IF ~env.adapter
          THEN Throw(ErrNoAdapter)
          ELSE pc' = "getContext" /\ error' = error
    /\ UNCHANGED <<variant, env, gridSize, workgroupSize, created, vertexData,
                   uniformData, hostWrites, modules, pipelines, bindGroups,
                   timers, step, invocations, submitted, executed, written,
                   gen, displayed, readUnwritten>>

\* Mutant: the null check on the context left out.
GetContext_unchecked ==
    /\ variant = "loop"
    /\ pc = "getContext"
    /\ pc' = "createBuffers"
    /\ error' = error
    /\ UNCHANGED <<variant, env, gridSize, workgroupSize, created, vertexData,
                   uniformData, hostWrites, modules, pipelines, bindGroups,
                   timers, step, invocations, submitted, executed, written,
                   gen, displayed, readUnwritten>>

\* canvas.getContext("webgpu"), if (!context) throw, context.configure
GetContext ==
    /\ variant = "loop"
    /\ pc = "getContext"
    /\ IF ~env.context
          THEN Throw(ErrNoContext)
          ELSE pc' = "createBuffers" /\ error' = error
    /\ UNCHANGED <<variant, env, gridSize, workgroupSize, created, vertexData,
                   uniformData, hostWrites, modules, pipelines, bindGroups,
                   timers, step, invocations, submitted, executed, written,
                   gen, displayed, readUnwritten>>

\* the four device.createBuffer calls
CreateBuffers ==
    /\ variant = "loop"
    /\ pc = "createBuffers"
    /\ created' = {VertexLabel, UniformLabel} \cup CellLabels
    /\ pc' = "upload"
    /\ UNCHANGED <<variant, env, gridSize, workgroupSize, error, vertexData,
                   uniformData, hostWrites, modules, pipelines, bindGroups,
                   timers, step, invocations, submitted, executed, written,
                   gen, displayed, readUnwritten>>

\* Mutant: the seed uploaded to cellStateStorage[1].
Upload_seedsB ==
    /\ variant = "loop"
    /\ pc = "upload"
    /\ hostWrites' = hostWrites \o <<WriteBuffer(cellStateStorage[1]),
                                     WriteBuffer(VertexLabel),
                                     WriteBuffer(UniformLabel)>>
    /\ written' = written \cup {cellStateStorage[1]}
    /\ gen' = [gen EXCEPT ![cellStateStorage[1]] = 0]
    /\ vertexData' = vertices
    /\ uniformData' = uniformArray
    /\ pc' = "shaders"
    /\ UNCHANGED <<variant, env, gridSize, workgroupSize, error, created,
                   modules, pipelines, bindGroups, timers, step, invocations,
                   submitted, executed, displayed, readUnwritten>>

\* the random seed and the three device.queue.writeBuffer calls
Upload ==
    /\ variant = "loop"
    /\ pc = "upload"
    /\ hostWrites' = hostWrites \o <<WriteBuffer(cellStateStorage[0]),
                                     WriteBuffer(VertexLabel),
                                     WriteBuffer(UniformLabel)>>
    /\ written' = written \cup {cellStateStorage[0]}
    /\ gen' = [gen EXCEPT ![cellStateStorage[0]] = 0]
    /\ vertexData' = vertices
    /\ uniformData' = uniformArray
    /\ pc' = "shaders"
    /\ UNCHANGED <<variant, env, gridSize, workgroupSize, error, created,
                   modules, pipelines, bindGroups, timers, step, invocations,
                   submitted, executed, displayed, readUnwritten>>

\* Mutant: a shader module that fails to compile makes the script throw.
CreateShaderModules_throws ==
    /\ variant = "loop"
    /\ pc = "shaders"
    /\ modules' = [cell |-> env.cellShader, sim |-> env.simShader]
    /\ IF env.cellShader /\ env.simShader
          THEN pc' = "bindGroups" /\ error' = error
          ELSE Throw("Shader compilation failed.")
    /\ UNCHANGED <<variant, env, gridSize, workgroupSize, created,
                   vertexData, uniformData, hostWrites, pipelines, bindGroups,
                   timers, step, invocations, submitted, executed, written,
                   gen, displayed, readUnwritten>>

\* the two device.createShaderModule calls: no result is inspected
CreateShaderModules ==
    /\ variant = "loop"
    /\ pc = "shaders"
    /\ modules' = [cell |-> env.cellShader, sim |-> env.simShader]
    /\ pc' = "bindGroups"
    /\ UNCHANGED <<variant, env, gridSize, workgroupSize, error, created,
                   vertexData, uniformData, hostWrites, pipelines, bindGroups,
                   timers, step, invocations, submitted, executed, written,
                   gen, displayed, readUnwritten>>

\* bindGroupLayout and the two bind groups A and B
CreateBindGroups ==
    /\ variant = "loop"
    /\ pc = "bindGroups"
    /\ bindGroups' = [i \in 0..1 |->
                        IF i = 0
                           THEN [b0 |-> UniformLabel,
                                 b1 |-> cellStateStorage[0],
                                 b2 |-> cellStateStorage[1]]
                           ELSE [b0 |-> UniformLabel,
                                 b1 |-> cellStateStorage[1],
                                 b2 |-> cellStateStorage[0]]]
    /\ pc' = "pipelines"
    /\ UNCHANGED <<variant, env, gridSize, workgroupSize, error, created,
                   vertexData, uniformData, hostWrites, modules, pipelines,
                   timers, step, invocations, submitted, executed, written,
                   gen, displayed, readUnwritten>>

\* pipelineLayout, createRenderPipeline, createComputePipeline: a pipeline
\* is valid when its shader module is and the creation itself succeeds
CreatePipelines ==
    /\ variant = "loop"
    /\ pc = "pipelines"
    /\ pipelines' = [cell |-> modules.cell /\ env.renderPipe,
                     sim |-> modules.sim /\ env.computePipe]
    /\ pc' = "setInterval"
    /\ UNCHANGED <<variant, env, gridSize, workgroupSize, error, created,
                   vertexData, uniformData, hostWrites, modules, bindGroups,
                   timers, step, invocations, submitted, executed, written,
                   gen, displayed, readUnwritten>>

\* let step = 0; setInterval(updateGrid, UPDATE_INTERVAL)
InstallTimer ==
    /\ variant = "loop"
    /\ pc = "setInterval"
    /\ step' = 0
    /\ timers' = Append(timers, UPDATE_INTERVAL)
    /\ pc' = "running"
    /\ UNCHANGED <<variant, env, gridSize, workgroupSize, error, created,
                   vertexData, uniformData, hostWrites, modules, pipelines,
                   bindGroups, invocations, submitted, executed, written,
                   gen, displayed, readUnwritten>>

\* ------------------------------------------ main.ts: the interval callback
\* The compute pass recorded by updateGrid when step = s.
ComputePassOf(s) ==
    [kind |-> "compute",
     group |-> ComputeGroup(s),
     bind |-> bindGroups[ComputeGroup(s)],
     countX |-> workgroupCount,
     countY |-> workgroupCount]

\* The render pass recorded by updateGrid when step = s.
RenderPassOf(s) ==
    [kind |-> "render",
     group |-> RenderGroup(s),
     bind |-> bindGroups[RenderGroup(s)],
     vertexCount |-> DrawVertexCount,
     instanceCount |-> DrawInstanceCount]

\* Mutant: a tick is skipped while the device still has a submission to process.
updateGrid_waits ==
    /\ variant = "loop"
    /\ pc = "running"
    /\ Len(timers) > 0
    /\ step < MaxStep
    /\ invocations < MaxStep
    /\ executed = Len(submitted)
    /\ LET computePass == ComputePassOf(step)
           stepAfter == step + 1
           renderPass == RenderPassOf(stepAfter)
           commandBuffer == [frame |-> step,
                             valid |-> pipelines.sim /\ pipelines.cell,
                             passes |-> <<computePass, renderPass>>]
       IN  /\ step' = stepAfter
           /\ submitted' = Append(submitted, commandBuffer)
    /\ invocations' = invocations + 1
    /\ UNCHANGED <<variant, env, gridSize, workgroupSize, pc, error, created,
                   vertexData, uniformData, hostWrites, modules, pipelines,
                   bindGroups, timers, executed, written, gen, displayed,
                   readUnwritten>>

\* Mutant: the counter keeps only its parity.
updateGrid_parityStep ==
    /\ variant = "loop"
    /\ pc = "running"
    /\ Len(timers) > 0
    /\ step < MaxStep
    /\ invocations < MaxStep
    /\ LET computePass == ComputePassOf(step)
           stepAfter == (step + 1) % 2
           renderPass == RenderPassOf(stepAfter)
           commandBuffer == [frame |-> step,
                             valid |-> pipelines.sim /\ pipelines.cell,
                             passes |-> <<computePass, renderPass>>]
       IN  /\ step' = stepAfter
           /\ submitted' = Append(submitted, commandBuffer)
    /\ invocations' = invocations + 1
    /\ UNCHANGED <<variant, env, gridSize, workgroupSize, pc, error, created,
                   vertexData, uniformData, hostWrites, modules, pipelines,
                   bindGroups, timers, executed, written, gen, displayed,
                   readUnwritten>>

\* Mutant: every frame uploads the seed again.
updateGrid_reseeds ==
    /\ variant = "loop"
    /\ pc = "running"
    /\ Len(timers) > 0
    /\ step < MaxStep
    /\ invocations < MaxStep
    /\ LET computePass == ComputePassOf(step)
           stepAfter == step + 1
           renderPass == RenderPassOf(stepAfter)
           commandBuffer == [frame |-> step,
                             valid |-> pipelines.sim /\ pipelines.cell,
                             passes |-> <<computePass, renderPass>>]
       IN  /\ step' = stepAfter
           /\ submitted' = Append(submitted, commandBuffer)
    /\ invocations' = invocations + 1
    /\ hostWrites' = Append(hostWrites, WriteBuffer(cellStateStorage[0]))
    /\ UNCHANGED <<variant, env, gridSize, workgroupSize, pc, error, created,
                   vertexData, uniformData, modules, pipelines,
                   bindGroups, timers, executed, written, gen, displayed,
                   readUnwritten>>

\* One timer tick: the whole of updateGrid.  The callback has no guard
\* other than the timer being installed; step < MaxStep bounds the model.
updateGrid ==
    /\ variant = "loop"
    /\ pc = "running"
    /\ Len(timers) > 0
    /\ step < MaxStep
    /\ LET computePass == ComputePassOf(step)
           stepAfter == step + 1
           renderPass == RenderPassOf(stepAfter)
           commandBuffer == [frame |-> step,
                             valid |-> pipelines.sim /\ pipelines.cell,
                             passes |-> <<computePass, renderPass>>]
       IN  /\ step' = stepAfter
           /\ submitted' = Append(submitted, commandBuffer)
    /\ invocations' = invocations + 1
    /\ UNCHANGED <<variant, env, gridSize, workgroupSize, pc, error, created,
                   vertexData, uniformData, hostWrites, modules, pipelines,
                   bindGroups, timers, executed, written, gen, displayed,
                   readUnwritten>>

\* ------------------------------------------------------------- the device
\* The effect of one pass on the cell-state buffers.  A compute pass reads
\* binding 1 and writes binding 2 (the next generation); a render pass reads
\* binding 1 when its bind group has one.
RunPass(st, p) ==
    IF p.kind = "compute"
       THEN [written |-> st.written \cup {p.bind.b2},
             gen |-> [st.gen EXCEPT ![p.bind.b2] = st.gen[p.bind.b1] + 1],
             displayed |-> st.displayed,
             bad |-> st.bad \/ p.bind.b1 \notin st.written]
       ELSE IF "b1" \in DOMAIN p.bind
               THEN [st EXCEPT !.displayed = st.gen[p.bind.b1],
                               !.bad = st.bad \/ p.bind.b1 \notin st.written]
               ELSE st

RECURSIVE RunPasses(_, _)
RunPasses(st, ps) ==
    IF ps = <<>> THEN st ELSE RunPasses(RunPass(st, Head(ps)), Tail(ps))

\* The queue processes the oldest unprocessed command buffer; an invalid
\* one is dropped with a validation error.
GpuExecute ==
    /\ executed < Len(submitted)
    /\ executed' = executed + 1
    /\ LET cmd == submitted[executed + 1]
           st0 == [written |-> written, gen |-> gen, displayed |-> displayed,
                   bad |-> readUnwritten]
           st1 == IF cmd.valid THEN RunPasses(st0, cmd.passes) ELSE st0
       IN  /\ written' = st1.written
           /\ gen' = st1.gen
           /\ displayed' = st1.displayed
           /\ readUnwritten' = st1.bad
    /\ UNCHANGED <<variant, env, gridSize, workgroupSize, pc, error, created,
                   vertexData, uniformData, hostWrites, modules, pipelines,
                   bindGroups, timers, step, invocations, submitted>>

\* ------------------------------------------------ part_000: render only
\* navigator.gpu, adapter, device, context, configure, createCommandEncoder
RO_Bootstrap ==
    /\ variant = "renderOnly"
    /\ pc = "start"
    /\ IF ~env.gpu THEN Throw(ErrNoGpu)
       ELSE IF ~env.adapter THEN Throw(ErrNoAdapter)
       ELSE IF ~env.context THEN Throw(ErrNoContext)
       ELSE pc' = "createBuffers" /\ error' = error
    /\ UNCHANGED <<variant, env, gridSize, workgroupSize, created, vertexData,
                   uniformData, hostWrites, modules, pipelines, bindGroups,
                   timers, step, invocations, submitted, executed, written,
                   gen, displayed, readUnwritten>>

\* vertex and uniform buffers and their two uploads
RO_CreateResources ==
    /\ variant = "renderOnly"
    /\ pc = "createBuffers"
    /\ created' = {VertexLabel, UniformLabel}
    /\ hostWrites' = hostWrites \o <<WriteBuffer(VertexLabel),
                                     WriteBuffer(UniformLabel)>>
    /\ vertexData' = vertices
    /\ uniformData' = uniformArray
    /\ pc' = "pipelines"
    /\ UNCHANGED <<variant, env, gridSize, workgroupSize, error, modules,
                   pipelines, bindGroups, timers, step, invocations,
                   submitted, executed, written, gen, displayed,
                   readUnwritten>>

\* cell shader module, render pipeline (layout "auto"), the one bind group
RO_CreatePipeline ==
    /\ variant = "renderOnly"
    /\ pc = "pipelines"
    /\ modules' = [modules EXCEPT !.cell = env.cellShader]
    /\ pipelines' = [pipelines EXCEPT !.cell = env.cellShader /\ env.renderPipe]
    /\ bindGroups' = [i \in 0..0 |-> [b0 |-> UniformLabel]]
    /\ pc' = "render"
    /\ UNCHANGED <<variant, env, gridSize, workgroupSize, error, created,
                   vertexData, uniformData, hostWrites, timers, step,
                   invocations, submitted, executed, written, gen, displayed,
                   readUnwritten>>

\* the single render pass and its submission
RO_Render ==
    /\ variant = "renderOnly"
    /\ pc = "render"
    /\ LET pass == [kind |-> "render",
                    group |-> 0,
                    bind |-> bindGroups[0],
                    vertexCount |-> DrawVertexCount,
                    instanceCount |-> DrawInstanceCount]
       IN  submitted' = Append(submitted,
                               [frame |-> 0, valid |-> pipelines.cell,
                                passes |-> <<pass>>])
    /\ pc' = "done"
    /\ UNCHANGED <<variant, env, gridSize, workgroupSize, error, created,
                   vertexData, uniformData, hostWrites, modules, pipelines,
                   bindGroups, timers, step, invocations, executed, written,
                   gen, displayed, readUnwritten>>

\* ---------------------------------------------------------- specification
Next ==
    \/ CheckGpu
    \/ RequestAdapter
    \/ GetContext
    \/ CreateBuffers
    \/ Upload
    \/ CreateShaderModules
    \/ CreateBindGroups
    \/ CreatePipelines
    \/ InstallTimer
    \/ updateGrid
    \/ GpuExecute
    \/ RO_Bootstrap
    \/ RO_CreateResources
    \/ RO_CreatePipeline
    \/ RO_Render

Spec == Init /\ [][Next]_vars

\* The sizes drawn from bounded sets, for the claims about every N and T.
SpecSizes == InitSizes /\ [][Next]_vars

\* The script runs to completion, the timer keeps firing and the queue keeps
\* draining: no enabled step is postponed forever.
FairSpec == Init /\ [][Next]_vars /\ WF_vars(Next)

\* ================================================================= claims
BootFails == ~env.gpu \/ ~env.adapter \/ ~env.context

CompileFails ==
    ~env.cellShader \/ ~env.simShader \/ ~env.renderPipe \/ ~env.computePipe

Frames == 1..Len(submitted)

\* C1: in the looping program the k-th command buffer is frame k-1, its
\* compute pass never binds one buffer as both input (binding 1) and output
\* (binding 2), and from each frame to the next the two roles swap: the
\* output of frame k is the input of frame k+1 and the input of frame k is
\* the output of frame k+1.
C1_PingPong ==
    variant = "loop" =>
        /\ \A k \in Frames :
              LET c == submitted[k].passes[1]
              IN  /\ submitted[k].frame = k - 1
                  /\ c.kind = "compute"
                  /\ c.bind.b1 # c.bind.b2
                  /\ {c.bind.b1, c.bind.b2} = CellLabels
        /\ \A k \in Frames :
              k + 1 \in Frames =>
                 /\ submitted[k].passes[1].bind.b2 = submitted[k + 1].passes[1].bind.b1
                 /\ submitted[k].passes[1].bind.b1 = submitted[k + 1].passes[1].bind.b2

C1_Witness ==
    /\ variant = "loop"
    /\ Len(submitted) >= 3
    /\ submitted[2].passes[1].bind.b1 = cellStateStorage[1]

\* C2: in every frame the compute pass uses bind group s % 2 and the render
\* pass uses bind group (s+1) % 2, s the step at entry; the two differ, the
\* render pass reads (binding 1) the buffer the compute pass of the same
\* frame wrote (binding 2), and so, once the device has run k valid frames,
\* the generation on screen is generation k.
C2_RenderSeesComputeOutput ==
    variant = "loop" =>
        /\ \A k \in Frames :
              LET s == submitted[k].frame
                  c == submitted[k].passes[1]
                  r == submitted[k].passes[2]
              IN  /\ c.group = s % 2
                  /\ r.group = (s + 1) % 2
                  /\ c.group # r.group
                  /\ c.bind = bindGroups[s % 2]
                  /\ r.bind = bindGroups[(s + 1) % 2]
                  /\ r.bind.b1 = c.bind.b2
        /\ (pipelines.cell /\ pipelines.sim /\ executed >= 1) => displayed = executed

C2_Witness ==
    /\ variant = "loop"
    /\ pipelines.cell /\ pipelines.sim
    /\ executed >= 2
    /\ displayed = 2

\* The passes of the queue in submission order, as <<frame index, pass index>>.
PassIds == {<<k, i>> : k \in Frames, i \in 1..2}

Before(a, b) == a[1] < b[1] \/ (a[1] = b[1] /\ a[2] < b[2])

\* C3: the host seeds cellStateStorage[0] and no other cell-state buffer;
\* the first compute dispatch reads buffer 0 and writes buffer 1; every pass
\* of the queue that reads buffer 1 comes after a compute pass that writes
\* it; and the device never executes a read of a cell-state buffer that
\* nothing has written.
C3_NoReadBeforeWrite ==
    variant = "loop" =>
        /\ {hostWrites[i].target : i \in 1..Len(hostWrites)} \cap CellLabels
              \subseteq {cellStateStorage[0]}
        /\ (hostWrites # <<>>) => hostWrites[1].target = cellStateStorage[0]
        /\ (cellStateStorage[1] \in written) => executed >= 1
        /\ (Len(submitted) >= 1) =>
              /\ submitted[1].passes[1].bind.b1 = cellStateStorage[0]
              /\ submitted[1].passes[1].bind.b2 = cellStateStorage[1]
        /\ \A a \in PassIds :
              submitted[a[1]].passes[a[2]].bind.b1 = cellStateStorage[1] =>
                 \E b \in PassIds :
                    /\ Before(b, a)
                    /\ submitted[b[1]].passes[b[2]].kind = "compute"
                    /\ submitted[b[1]].passes[b[2]].bind.b2 = cellStateStorage[1]
        /\ ~readUnwritten

C3_Witness ==
    /\ variant = "loop"
    /\ pipelines.cell /\ pipelines.sim
    /\ executed >= 2
    /\ cellStateStorage[1] \in written
    /\ ~readUnwritten

C4_Safety ==
    /\ BootFails =>
          /\ created = {}
          /\ hostWrites = <<>>
          /\ submitted = <<>>
          /\ timers = <<>>
          /\ invocations = 0
          /\ pc \in {"start", "requestAdapter", "getContext", "failed"}
    /\ (pc = "failed") =>
          /\ BootFails
          /\ error = (IF ~env.gpu THEN ErrNoGpu
                      ELSE IF ~env.adapter THEN ErrNoAdapter
                      ELSE ErrNoContext)
    /\ Len(timers) <= 1
    /\ (invocations > 0) => Len(timers) = 1
    /\ (variant = "loop" /\ pc = "running") =>
          /\ Len(timers) = 1
          /\ (step < MaxStep) => ENABLED updateGrid

\* C4: when navigator.gpu, the adapter or the context is missing the script
\* throws (with the matching message) before any buffer, upload, submission
\* or timer exists, and updateGrid never runs; in every other case the script
\* does not fail, reaches the frame loop with exactly one timer installed,
\* never leaves it, and every tick (up to the model's bound) runs updateGrid.
C4_AllOrNothing ==
    /\ []C4_Safety
    /\ [][(pc = "running") => (pc' = "running" /\ timers' = timers)]_vars
    /\ [][(pc = "failed") => (pc' = "failed")]_vars
    /\ (BootFails ~> (pc = "failed"))
    /\ ((variant = "loop" /\ ~BootFails) ~>
           (pc = "running" /\ Len(timers) = 1 /\ invocations = MaxStep))

C4_Witness ==
    /\ variant = "loop"
    /\ pc = "failed"
    /\ error = ErrNoContext
    /\ env.gpu /\ env.adapter
    /\ created = {}

\* C5 as stated: a failed shader compilation or pipeline creation keeps the
\* program out of the frame loop (no timer, no updateGrid, no submission).
C5_Original ==
    (variant = "loop" /\ CompileFails) =>
        /\ timers = <<>>
        /\ invocations = 0
        /\ submitted = <<>>

C5_Safety ==
    (variant = "loop" /\ CompileFails /\ ~BootFails) =>
        /\ pc # "failed"
        /\ error = ""
        /\ Len(submitted) = invocations
        /\ (pc = "running") =>
              /\ Len(timers) = 1
              /\ (step < MaxStep) => ENABLED updateGrid

\* C5 (amended): a failed shader compilation or pipeline creation does not
\* stop the script: no Error is thrown, the timer is installed, and every
\* tick runs updateGrid, which submits one command buffer.
C5_Amended ==
    /\ []C5_Safety
    /\ ((variant = "loop" /\ CompileFails /\ ~BootFails) ~>
           (pc = "running" /\ Len(timers) = 1 /\ Len(submitted) = MaxStep))

C5_Witness ==
    /\ variant = "loop"
    /\ ~env.simShader
    /\ pc = "running"
    /\ invocations >= 2
    /\ Len(submitted) >= 2

\* C6: for every grid size N and tile size T, each compute pass dispatches
\* the same count c on both axes, c the least integer with c * T >= N
\* (so (c - 1) * T < N); for N = 128 and T = 8, c = 16.
C6_WorkgroupCount ==
    variant = "loop" =>
        \A k \in Frames :
           LET c == submitted[k].passes[1]
           IN  /\ c.countX = c.countY
               /\ c.countX * workgroupSize >= gridSize
               /\ (c.countX - 1) * workgroupSize < gridSize
               /\ (gridSize = 128 /\ workgroupSize = 8) => c.countX = 16

C6_Witness ==
    /\ variant = "loop"
    /\ Len(submitted) >= 1
    /\ gridSize % workgroupSize # 0
    /\ gridSize > 2 * workgroupSize
    /\ submitted[1].passes[1].countX >= 3

\* The render passes of a command buffer.
RenderPasses(cmd) ==
    {cmd.passes[i] : i \in {j \in 1..Len(cmd.passes) : cmd.passes[j].kind = "render"}}

\* C7: every draw requests 6 vertices and N * N instances: 16384 in every
\* frame of the looping program (N = 128), 1024 in the one render of the
\* render-only program (N = 32), whose only bind group binds the grid
\* uniform alone.
C7_DrawCounts ==
    /\ \A k \in Frames :
          /\ RenderPasses(submitted[k]) # {}
          /\ \A r \in RenderPasses(submitted[k]) :
                /\ r.vertexCount = 6
                /\ r.instanceCount = gridSize * gridSize
                /\ (variant = "loop") => r.instanceCount = 16384
                /\ (variant = "renderOnly") =>
                      /\ r.instanceCount = 1024
                      /\ DOMAIN r.bind = {"b0"}
                      /\ r.bind.b0 = UniformLabel
    /\ (variant = "renderOnly") =>
          /\ Len(submitted) <= 1
          /\ (bindGroups # NoBindGroups) => DOMAIN bindGroups = {0}
          /\ \A k \in Frames : Len(submitted[k].passes) = 1

C7_Witness ==
    /\ variant = "renderOnly"
    /\ pc = "done"
    /\ Len(submitted) = 1
    /\ executed = 1

\* C8: after k updateGrid invocations exactly k command buffers have been
\* submitted, one per invocation; each holds exactly a compute pass followed
\* by a render pass, the step increment lying between them (the compute pass
\* uses the parity of the step at entry, the render pass the other); and a
\* tick runs updateGrid whether or not the device has processed the earlier
\* submissions.
C8_FrameShape ==
    variant = "loop" =>
        /\ Len(submitted) = invocations
        /\ \A k \in Frames :
              /\ submitted[k].frame = k - 1
              /\ Len(submitted[k].passes) = 2
              /\ submitted[k].passes[1].kind = "compute"
              /\ submitted[k].passes[2].kind = "render"
              /\ submitted[k].passes[1].group = (k - 1) % 2
              /\ submitted[k].passes[2].group = k % 2
        /\ executed <= Len(submitted)
        /\ (pc = "running" /\ step < MaxStep) => ENABLED updateGrid

C8_Witness ==
    /\ variant = "loop"
    /\ invocations >= 3
    /\ Len(submitted) >= 3
    /\ executed = 0

C9_Safety ==
    /\ step = invocations
    /\ (pc # "running") => step = 0
    /\ (variant = "loop" /\ pc = "running") =>
          /\ ComputePassOf(step).group = invocations % 2
          /\ ComputePassOf(step).bind = bindGroups[invocations % 2]

\* C9: step is 0 before the first invocation, equals the number of completed
\* invocations ever after, grows by exactly 1 in each invocation and is
\* changed by nothing else; the next compute phase uses bindGroups[k % 2].
C9_StepCounter ==
    /\ []C9_Safety
    /\ [][step' = step \/ step' = step + 1]_vars
    /\ [][(invocations' # invocations) => (step' = step + 1)]_vars
    /\ [][(step' # step) => (invocations' = invocations + 1)]_vars

C9_Witness ==
    /\ variant = "loop"
    /\ step = 3
    /\ invocations = 3
    /\ pc = "running"

C10_Safety ==
    /\ \A i \in 1..Len(hostWrites) : hostWrites[i].timersInstalled = 0
    /\ Len(hostWrites) <= 3
    /\ (timers # <<>> \/ submitted # <<>>) =>
          /\ vertexData = vertices
          /\ uniformData = uniformArray

\* The device step that ran: the command buffer it processed.
Processed == submitted[executed + 1]

C10_Step ==
    (timers # <<>>) =>
        /\ hostWrites' = hostWrites
        /\ vertexData' = vertexData
        /\ uniformData' = uniformData
        /\ \A b \in CellLabels :
              (gen'[b] # gen[b] \/ (b \in written') # (b \in written)) =>
                 /\ executed' = executed + 1
                 /\ Processed.valid
                 /\ \E i \in 1..Len(Processed.passes) :
                       /\ Processed.passes[i].kind = "compute"
                       /\ Processed.passes[i].bind.b2 = b

\* C10: every writeBuffer call is made before the timer is installed; once
\* it is, the host writes nothing, the vertex and uniform buffers keep what
\* was uploaded, and a cell-state buffer changes only when the device runs a
\* compute pass that binds it as binding 2.
C10_HostWritesOnlyAtInit ==
    /\ []C10_Safety
    /\ [][C10_Step]_vars
    /\ [][(vertexData # <<>>) => (vertexData' = vertexData)]_vars
    /\ [][(uniformData # <<>>) => (uniformData' = uniformData)]_vars

C10_Witness ==
    /\ variant = "loop"
    /\ pipelines.cell /\ pipelines.sim
    /\ executed >= 3
    /\ gen[cellStateStorage[1]] = 3
    /\ Len(hostWrites) = 3

====
